---------------------------- MODULE Spec2Model ----------------------------
(***************************************************************************)
(* A model of get_recent_paper.py: the keyword-to-file-name sanitizer, the *)
(* per-paper affiliation pipeline (PDF fetch, first-page extraction, model *)
(* call, reconciliation against the arXiv author list) and the run driver. *)
(*                                                                         *)
(* Python strings are modelled as sequences of one-character strings, so   *)
(* that str.strip and re.sub are computed character by character.          *)
(***************************************************************************)
EXTENDS Integers, Sequences, FiniteSets, TLC

VARIABLES
    keyword,            \* the -k argument; the argument of sanitize_filename
    fname,              \* the value sanitize_filename returned
    san_pc,             \* "start" before sanitize_filename is called, "done" after
    api_key,            \* os.getenv("DASHSCOPE_API_KEY") is a non-empty string
    pdf_url,            \* extract_affiliations_for_authors: the PDF link ("" when the feed has none)
    authors_from_api,   \* extract_affiliations_for_authors: the author list
    pc,                 \* extract_affiliations_for_authors: position in the body
    text,               \* the first-page text after line 75
    content,            \* what call_qwen returned
    result,             \* the list extract_affiliations_for_authors returned
    log,                \* the steps of the current paper and their outcomes
    run_pc,             \* main / search_arxiv_papers: position
    feed_out,           \* outcome of the feed request of line 185
    items,              \* parse_arxiv_feed(resp.text)
    idx,                \* index in items of the paper being processed
    results,            \* search_arxiv_papers: the list `results`
    outcomes,           \* per finished paper: its log and the model's answer
    printed,            \* messages printed
    saved               \* the file save_results wrote

sanVars == <<keyword, fname, san_pc>>

paperVars == <<pdf_url, authors_from_api, pc, text, content, result, log>>

runVars == <<run_pc, feed_out, items, idx, results, outcomes, printed, saved>>

vars == <<keyword, fname, san_pc, api_key, pdf_url, authors_from_api, pc, text, content,
          result, log, run_pc, feed_out, items, idx, results, outcomes, printed, saved>>

---------------------------------------------------------------------------
(* Characters and Python string primitives *)

WhiteSpace == {" ", "\t"}

DoubleQuote == "\""

SingleQuote == "'"

\* the character class [\\/:*?"<>|] of line 39
PathHostile == {"\\", "/", ":", "*", "?", "\"", "<", ">", "|"}

RECURSIVE LStrip(_, _)
LStrip(s, cs) ==
    IF s # <<>> /\ Head(s) \in cs THEN LStrip(Tail(s), cs) ELSE s

RECURSIVE RStrip(_, _)
RStrip(s, cs) ==
    IF s # <<>> /\ s[Len(s)] \in cs THEN RStrip(SubSeq(s, 1, Len(s) - 1), cs) ELSE s

\* str.strip(chars): drop leading and trailing characters of the set
Strip(s, cs) == RStrip(LStrip(s, cs), cs)

\* a buggy variant of ReSub: the pattern without "+", one rep per character
RECURSIVE ReSubEach(_, _, _)
ReSubEach(s, cs, rep) ==
    IF s = <<>> THEN <<>>
    ELSE IF Head(s) \in cs THEN <<rep>> \o ReSubEach(Tail(s), cs, rep)
    ELSE <<Head(s)>> \o ReSubEach(Tail(s), cs, rep)

\* re.sub(r"[cs]+", rep, s): every maximal run of characters of cs becomes rep
RECURSIVE ReSub(_, _, _)
ReSub(s, cs, rep) ==
    IF s = <<>> THEN <<>>
    ELSE IF Head(s) \in cs THEN <<rep>> \o ReSub(LStrip(s, cs), cs, rep)
    ELSE <<Head(s)>> \o ReSub(Tail(s), cs, rep)

---------------------------------------------------------------------------
(* sanitize_filename *)

DefaultName == <<"k", "e", "y", "w", "o", "r", "d", "s">>

\* line 38: name.strip().strip('"').strip("'")
StripKeyword(name) == Strip(Strip(Strip(name, WhiteSpace), {DoubleQuote}), {SingleQuote})

sanitize_filename(name) ==
    LET n1 == StripKeyword(name)
        n2 == ReSub(n1, PathHostile, "_")
        n3 == ReSub(n2, WhiteSpace, "_")
    IN  IF n3 = <<>> THEN DefaultName ELSE n3

---------------------------------------------------------------------------
(* JSON values as json.loads returns them.  A value is a record            *)
(* [t, s, n, items]: t is the Python type, s the characters of a str, n    *)
(* the value of an int, items the elements of a list.                      *)

Str(s) == [t |-> "str", s |-> s, n |-> 0, items |-> <<>>]

Num(n) == [t |-> "num", s |-> <<>>, n |-> n, items |-> <<>>]

Null == [t |-> "null", s |-> <<>>, n |-> 0, items |-> <<>>]

\* dict.get(key) of a key the object does not have: None
Absent == [t |-> "absent", s |-> <<>>, n |-> 0, items |-> <<>>]

List(xs) == [t |-> "list", s |-> <<>>, n |-> 0, items |-> xs]

\* an element of data["authors"]: a JSON object with its two fields, or not an object
Entry(nm, aff) == [t |-> "obj", name |-> nm, affiliations |-> aff]

NonObjectEntry == [t |-> "num", name |-> Absent, affiliations |-> Absent]

\* the value of data.get("authors", []): t = "absent" when the key is missing
AuthorsList(es) == [t |-> "list", s |-> <<>>, items |-> es]

AuthorsOther(ty, s) == [t |-> ty, s |-> s, items |-> <<>>]

\* the top-level value: a JSON object, another JSON value, or text that is not JSON
Object(au) == [t |-> "obj", authors |-> au]

NonObject(ty) == [t |-> ty, authors |-> AuthorsOther("absent", <<>>)]

NotJson == NonObject("notjson")

\* what call_qwen returns: the JSON text with what surrounds it
\*   "none": the bare text, "ticks": ```...```, "ticks_json": ```json\n...```,
\*   "preamble": other text before the JSON
Content(fence, body) == [fence |-> fence, body |-> body]

NoContent == Content("absent", NotJson)

\* Python truthiness of a JSON value (the operand of `or` and `and`)
Truthy(v) ==
    CASE v.t = "str" -> v.s # <<>>
      [] v.t = "num" -> v.n # 0
      [] v.t = "list" -> v.items # <<>>
      [] OTHER -> FALSE

---------------------------------------------------------------------------
(* extract_affiliations_for_authors, lines 106-117 *)

\* an alternative to DegradedResult that loses the authors
DegradedEmpty(authors) == <<>>

\* lines 73 and 117: [{"name": a, "affiliations": []} for a in authors_from_api]
DegradedResult(authors) ==
    [i \in 1..Len(authors) |-> [name |-> authors[i], affiliations |-> <<>>]]

\* lines 106-108: strip the fence, then json.loads; the value, or NotJson when it raises
JsonLoads(c) ==
    IF c.fence \in {"none", "ticks", "ticks_json"} THEN c.body ELSE NotJson

\* an alternative to NameKey that compares the model's name as returned
NameKeyExact(e) == IF Truthy(e.name) THEN e.name.s ELSE <<>>

\* line 110, the key: (a.get("name") or "").strip()
NameKey(e) == IF Truthy(e.name) THEN Strip(e.name.s, WhiteSpace) ELSE <<>>

\* line 110, the value: a.get("affiliations") or []
AffValue(e) == IF Truthy(e.affiliations) THEN e.affiliations ELSE List(<<>>)

\* line 110: a dict comprehension; a later entry replaces an earlier one of the same key
RECURSIVE DictOf(_)
DictOf(es) ==
    IF es = <<>> THEN <<>>
    ELSE LET d == DictOf(SubSeq(es, 1, Len(es) - 1))
             e == es[Len(es)]
         IN  [k \in (DOMAIN d) \cup {NameKey(e)} |->
                 IF k = NameKey(e) THEN AffValue(e) ELSE d[k]]

\* line 110: the entries iterated, data.get("authors", [])
AuthorEntries(data) == IF data.authors.t = "list" THEN data.authors.items ELSE <<>>

\* line 110: the exception the comprehension raises, or "none"
AffByNameRaises(data) ==
    IF data.t # "obj" THEN "AttributeError"                       \* data.get
    ELSE IF data.authors.t \in {"null", "num"} THEN "TypeError"   \* not iterable
    ELSE IF data.authors.t = "str" /\ data.authors.s # <<>>
         THEN "AttributeError"                                    \* str.get
    ELSE IF \E k \in 1..Len(AuthorEntries(data)) :
               LET e == AuthorEntries(data)[k]
               IN  \/ e.t # "obj"                                 \* a.get
                   \/ Truthy(e.name) /\ e.name.t # "str"          \* .strip()
         THEN "AttributeError"
    ELSE "none"

\* line 112: aff_by_name.get(name, [])
DictGet(d, name) == IF name \in DOMAIN d THEN d[name] ELSE List(<<>>)

\* line 113: the elements `for s in aff` iterates (a str yields its characters)
Elements(aff) ==
    IF aff.t = "str" THEN [j \in 1..Len(aff.s) |-> Str(<<aff.s[j]>>)] ELSE aff.items

\* line 113: the exception the list comprehension raises, or "none"
CleanRaises(aff) ==
    IF aff.t = "num" THEN "TypeError"                             \* int is not iterable
    ELSE IF \E j \in 1..Len(Elements(aff)) :
               Truthy(Elements(aff)[j]) /\ Elements(aff)[j].t # "str"
         THEN "AttributeError"                                    \* s.strip()
    ELSE "none"

Kept(v) == Truthy(v) /\ Strip(v.s, WhiteSpace) # <<>>

\* an alternative to CleanAffs that filters without trimming what it keeps
CleanAffsUntrimmed(aff) ==
    LET kept == SelectSeq(Elements(aff), Kept)
    IN  [j \in 1..Len(kept) |-> kept[j].s]

\* line 113: [s.strip() for s in aff if s and s.strip()]
CleanAffs(aff) ==
    LET kept == SelectSeq(Elements(aff), Kept)
    IN  [j \in 1..Len(kept) |-> Strip(kept[j].s, WhiteSpace)]

\* lines 108-114: the exception raised between json.loads and `return out`, or "none"
ReconcileRaises(authors, data) ==
    IF data.t = "notjson" THEN "JSONDecodeError"
    ELSE IF AffByNameRaises(data) # "none" THEN AffByNameRaises(data)
    ELSE LET d == DictOf(AuthorEntries(data))
             bad == {i \in 1..Len(authors) : CleanRaises(DictGet(d, authors[i])) # "none"}
         IN  IF bad = {} THEN "none"
             ELSE CleanRaises(DictGet(d, authors[CHOOSE i \in bad : \A j \in bad : i <= j]))

\* lines 109-115: the list `out`
Reconcile(authors, data) ==
    LET d == DictOf(AuthorEntries(data))
    IN  [i \in 1..Len(authors) |->
            [name |-> authors[i], affiliations |-> CleanAffs(DictGet(d, authors[i]))]]

\* an alternative to ExceptException that handles only the requests errors
ExceptRequestsOnly(e) == e \in {"MissingSchema", "Timeout", "ConnectionError", "HTTPError"}

\* the clauses `except Exception` of lines 72 and 116
ExceptException(e) ==
    e \in {"MissingSchema", "Timeout", "ConnectionError", "HTTPError", "PDFSyntaxError", "IndexError",
           "RuntimeError", "KeyError", "JSONDecodeError", "AttributeError", "TypeError"}

\* line 75: re.sub(r"\s+", " ", text).strip()
NormalizeText(raw) == Strip(ReSub(raw, WhiteSpace, " "), WhiteSpace)

---------------------------------------------------------------------------
(* The inputs *)

MaxKwLen == 4

MaxAuthors == 2

MaxEntries == 2

MaxPapers == 2

KwChars == {"a", " ", "\t", "/", DoubleQuote, SingleQuote}

RECURSIVE StringsUpTo(_, _)
StringsUpTo(chars, n) ==
    IF n = 0 THEN {<<>>}
    ELSE LET shorter == StringsUpTo(chars, n - 1)
         IN  shorter \cup {Append(s, c) : s \in shorter, c \in chars}

Keywords == StringsUpTo(KwChars, MaxKwLen)

\* parse_arxiv_feed (lines 144-148) yields names that are trimmed and not empty
AuthorNames == {<<"a">>, <<"b">>}

AuthorLists == StringsUpTo(AuthorNames, MaxAuthors)

\* names the model answers with: exact, padded with whitespace, not in the list
ModelNames == {<<"a">>, <<"b">>, <<" ", "a">>, <<"c">>}

\* affiliation lists of strings: plain, padded, blank, empty, repeated, in two orders
AffLists ==
    { <<>>, <<<<"m">>>>, <<<<"m">>, <<" ", "n", " ">>>>, <<<<" ", "n", " ">>, <<"m">>>>,
      <<<<"m">>, <<"m">>>>, <<<<>>, <<" ">>, <<"\t", "m">>>> }

StrList(ss) == List([j \in 1..Len(ss) |-> Str(ss[j])])

GoodEntries == {Entry(Str(nm), StrList(ss)) : nm \in ModelNames, ss \in AffLists}

\* entries with a missing field or a field of the wrong type
BadEntries ==
    { NonObjectEntry,
      Entry(Num(5), StrList(<<<<"m">>>>)),
      Entry(Num(0), StrList(<<<<"m">>>>)),
      Entry(Null, StrList(<<<<"m">>>>)),
      Entry(Absent, StrList(<<<<"m">>>>)),
      Entry(Str(<<"a">>), Str(<<"m", "n">>)),
      Entry(Str(<<"a">>), Num(5)),
      Entry(Str(<<"a">>), Null),
      Entry(Str(<<"a">>), Absent),
      Entry(Str(<<"a">>), List(<<Num(5)>>)),
      Entry(Str(<<"a">>), List(<<Null, Str(<<"m">>)>>)),
      Entry(Str(<<"c">>), List(<<Num(5)>>)),
      Entry(Str(<<"c">>), Num(5)),
      Entry(Str(<<"c">>), Str(<<"m">>)) }

FewGoodEntries ==
    { Entry(Str(<<"a">>), StrList(<<<<"m">>>>)), Entry(Str(<<"b">>), StrList(<<<<" ", "n", " ">>>>)) }

WellFormedBodies == {Object(AuthorsList(es)) : es \in StringsUpTo(GoodEntries, MaxEntries)}

MalformedBodies ==
    {NotJson, NonObject("list"), NonObject("null"),
     Object(AuthorsOther("absent", <<>>)), Object(AuthorsOther("null", <<>>)),
     Object(AuthorsOther("num", <<>>)), Object(AuthorsOther("str", <<>>)),
     Object(AuthorsOther("str", <<"a">>))}
    \cup {Object(AuthorsList(es)) : es \in StringsUpTo(BadEntries \cup FewGoodEntries, MaxEntries)}

FencedBodies ==
    {NotJson, Object(AuthorsList(<<Entry(Str(<<"a">>), StrList(<<<<"m">>>>))>>))}

\* the answers of the model for one paper
Contents ==
    {Content("none", b) : b \in WellFormedBodies \cup MalformedBodies}
    \cup {Content(f, b) : f \in {"ticks", "ticks_json", "preamble"}, b \in FencedBodies}

\* the answers of the model in a run over several papers
RunContents ==
    { Content("none", NotJson),
      Content("ticks_json", Object(AuthorsList(<<Entry(Str(<<"a">>), StrList(<<<<"m">>>>))>>))),
      Content("none", Object(AuthorsList(<<Entry(Str(<<"b">>), StrList(<<<<"m">>>>)),
                                          Entry(Str(<<"c">>), StrList(<<<<"m">>>>))>>))) }

\* first_page.extract_text(): None (modelled as the empty text of `or ""`) or a text
RawTexts == {<<>>, <<" ", "\t">>, <<" ", "x", "\t", " ", "x">>}

RunRawTexts == {<<>>, <<"x">>}

\* the entries of the feed: title, pdf_url and authors (the other fields are copied like title)
FeedItems ==
    { [title |-> "t1", pdf_url |-> "u1", authors |-> <<<<"a">>, <<"b">>>>],
      [title |-> "t2", pdf_url |-> "", authors |-> <<<<"a">>>>],
      [title |-> "t3", pdf_url |-> "u3", authors |-> <<>>] }

Feeds == StringsUpTo(FeedItems, MaxPapers)

NoFile == [name |-> <<>>, data |-> <<>>, written |-> FALSE]

---------------------------------------------------------------------------
(* The values of the variables of a part of the program that is not running *)

SanIdle == keyword = <<>> /\ fname = <<>> /\ san_pc = "idle"

PaperIdle ==
    /\ pdf_url = ""
    /\ authors_from_api = <<>>
    /\ pc = "idle"
    /\ text = <<>>
    /\ content = NoContent
    /\ result = <<>>
    /\ log = <<>>

RunIdle ==
    /\ run_pc = "idle"
    /\ feed_out = "none"
    /\ items = <<>>
    /\ idx = 0
    /\ results = <<>>
    /\ outcomes = <<>>
    /\ printed = <<>>
    /\ saved = NoFile

---------------------------------------------------------------------------
(* sanitize_filename called on a keyword *)

InitSan ==
    /\ keyword \in Keywords
    /\ fname = <<>>
    /\ san_pc = "start"
    /\ api_key = TRUE
    /\ PaperIdle
    /\ RunIdle

SanitizeFilename ==
    /\ san_pc = "start"
    /\ fname' = sanitize_filename(keyword)
    /\ san_pc' = "done"
    /\ UNCHANGED <<keyword, api_key, paperVars, runVars>>

NextSan == SanitizeFilename

SpecSan == InitSan /\ [][NextSan]_vars

---------------------------------------------------------------------------
(* extract_affiliations_for_authors, step by step *)

Step(op, out) == [op |-> op, out |-> out]

\* an exception e raised inside a try block: the handler returns the degraded
\* result; an exception the handler does not name leaves the function
Handle(e) ==
    IF ExceptException(e)
       THEN result' = DegradedResult(authors_from_api) /\ pc' = "done"
       ELSE result' = result /\ pc' = "raised"

\* an alternative to FetchFails that issues the request again
FetchFailsRetry ==
    /\ pc = "fetch"
    /\ Len(log) < 3
    /\ \E e \in {"Timeout", "ConnectionError", "HTTPError"} :
          log' = Append(log, Step("get", e))
    /\ UNCHANGED <<pdf_url, authors_from_api, pc, text, content, result>>
    /\ UNCHANGED <<sanVars, api_key, runVars>>

\* lines 66-67 raise: no schema in the URL, no answer, or a status raise_for_status rejects
FetchFails ==
    /\ pc = "fetch"
    /\ \E e \in (IF pdf_url = "" THEN {"MissingSchema"}
                 ELSE {"Timeout", "ConnectionError", "HTTPError"}) :
          /\ log' = Append(log, Step("get", e))
          /\ Handle(e)
    /\ UNCHANGED <<pdf_url, authors_from_api, text, content>>
    /\ UNCHANGED <<sanVars, api_key, runVars>>

\* lines 66-67 return
FetchReturns ==
    /\ pc = "fetch"
    /\ pdf_url # ""
    /\ log' = Append(log, Step("get", "ok"))
    /\ pc' = "open"
    /\ UNCHANGED <<pdf_url, authors_from_api, text, content, result>>
    /\ UNCHANGED <<sanVars, api_key, runVars>>

\* lines 68-71 raise: the content is no PDF, or the PDF has no page
ExtractFails ==
    /\ pc = "open"
    /\ \E e \in {"PDFSyntaxError", "IndexError"} :
          /\ log' = Append(log, Step("pdf", e))
          /\ Handle(e)
    /\ UNCHANGED <<pdf_url, authors_from_api, text, content>>
    /\ UNCHANGED <<sanVars, api_key, runVars>>

\* lines 68-71 return and line 75 normalizes the text
ExtractReturns(texts) ==
    /\ pc = "open"
    /\ \E raw \in texts : text' = NormalizeText(raw)
    /\ log' = Append(log, Step("pdf", "ok"))
    /\ pc' = "call"
    /\ UNCHANGED <<pdf_url, authors_from_api, content, result>>
    /\ UNCHANGED <<sanVars, api_key, runVars>>

\* lines 16-18: call_qwen raises before any request is made
CallQwenNoKey ==
    /\ pc = "call"
    /\ ~api_key
    /\ log' = Append(log, Step("key", "RuntimeError"))
    /\ Handle("RuntimeError")
    /\ UNCHANGED <<pdf_url, authors_from_api, text, content>>
    /\ UNCHANGED <<sanVars, api_key, runVars>>

\* lines 31-34 raise: no answer, a rejected status, or a body without choices
CallQwenFails ==
    /\ pc = "call"
    /\ api_key
    /\ \E e \in {"Timeout", "HTTPError", "KeyError"} :
          /\ log' = Append(log, Step("post", e))
          /\ Handle(e)
    /\ UNCHANGED <<pdf_url, authors_from_api, text, content>>
    /\ UNCHANGED <<sanVars, api_key, runVars>>

\* lines 31-34 return and lines 106-117 turn the answer into the result
CallQwenReturns(contents) ==
    /\ pc = "call"
    /\ api_key
    /\ \E c \in contents :
          LET data == JsonLoads(c)
              e == ReconcileRaises(authors_from_api, data)
          IN  /\ content' = c
              /\ log' = log \o <<Step("post", "ok"), Step("parse", IF e = "none" THEN "ok" ELSE e)>>
              /\ IF e = "none"
                    THEN result' = Reconcile(authors_from_api, data) /\ pc' = "done"
                    ELSE Handle(e)
    /\ UNCHANGED <<pdf_url, authors_from_api, text>>
    /\ UNCHANGED <<sanVars, api_key, runVars>>

InitAff ==
    /\ SanIdle
    /\ RunIdle
    /\ api_key \in BOOLEAN
    /\ pdf_url \in {"", "u"}
    /\ authors_from_api \in AuthorLists
    /\ pc = "fetch"
    /\ text = <<>>
    /\ content = NoContent
    /\ result = <<>>
    /\ log = <<>>

NextAff ==
    \/ FetchFails
    \/ FetchReturns
    \/ ExtractFails
    \/ ExtractReturns(RawTexts)
    \/ CallQwenNoKey
    \/ CallQwenFails
    \/ CallQwenReturns(Contents)

SpecAff == InitAff /\ [][NextAff]_vars

---------------------------------------------------------------------------
(* main and search_arxiv_papers *)

\* line 185 returns a response whose status is not 200: lines 186-188
FeedNon200 ==
    /\ run_pc = "query"
    /\ feed_out' = "non200"
    /\ printed' = Append(printed, "request failed")
    /\ results' = <<>>
    /\ run_pc' = "save"
    /\ UNCHANGED <<items, idx, outcomes, saved>>
    /\ UNCHANGED <<sanVars, api_key, paperVars>>

\* line 185 raises (no answer in 60 s, no connection): nothing handles it
FeedRaises ==
    /\ run_pc = "query"
    /\ \E e \in {"Timeout", "ConnectionError"} : feed_out' = e
    /\ run_pc' = "crashed"
    /\ UNCHANGED <<items, idx, results, outcomes, printed, saved>>
    /\ UNCHANGED <<sanVars, api_key, paperVars>>

\* line 190: ET.fromstring (line 128) raises on a body that is not XML: nothing handles it
FeedUnparseable ==
    /\ run_pc = "query"
    /\ feed_out' = "ParseError"
    /\ run_pc' = "crashed"
    /\ UNCHANGED <<items, idx, results, outcomes, printed, saved>>
    /\ UNCHANGED <<sanVars, api_key, paperVars>>

\* line 190: the feed is parsed into items
FeedParsed ==
    /\ run_pc = "query"
    /\ feed_out' = "ok"
    /\ items' \in Feeds
    /\ idx' = 1
    /\ results' = <<>>
    /\ run_pc' = "loop"
    /\ UNCHANGED <<outcomes, printed, saved>>
    /\ UNCHANGED <<sanVars, api_key, paperVars>>

\* lines 192-193: the call of extract_affiliations_for_authors for the next item
StartPaper ==
    /\ run_pc = "loop"
    /\ pc = "idle"
    /\ idx <= Len(items)
    /\ pdf_url' = items[idx].pdf_url
    /\ authors_from_api' = items[idx].authors
    /\ pc' = "fetch"
    /\ UNCHANGED <<text, content, result, log>>
    /\ UNCHANGED <<sanVars, api_key, runVars>>

\* lines 193-202: the call returns and the record is appended; an exception
\* that left the call leaves search_arxiv_papers and main too
FinishPaper ==
    /\ run_pc = "loop"
    /\ pc \in {"done", "raised"}
    /\ IF pc = "raised"
          THEN /\ run_pc' = "crashed"
               /\ UNCHANGED <<idx, results, outcomes>>
          ELSE /\ results' = Append(results, [title |-> items[idx].title, authors |-> result])
               /\ outcomes' = Append(outcomes, [log |-> log, text |-> text, content |-> content])
               /\ idx' = idx + 1
               /\ run_pc' = run_pc
    /\ pdf_url' = ""
    /\ authors_from_api' = <<>>
    /\ pc' = "idle"
    /\ text' = <<>>
    /\ content' = NoContent
    /\ result' = <<>>
    /\ log' = <<>>
    /\ UNCHANGED <<feed_out, items, printed, saved>>
    /\ UNCHANGED <<sanVars, api_key>>

\* line 203
ReturnResults ==
    /\ run_pc = "loop"
    /\ pc = "idle"
    /\ idx > Len(items)
    /\ run_pc' = "save"
    /\ UNCHANGED <<feed_out, items, idx, results, outcomes, printed, saved>>
    /\ UNCHANGED <<sanVars, api_key, paperVars>>

JsonSuffix == <<".", "j", "s", "o", "n">>

\* line 216, save_results (lines 44-54)
SaveResults ==
    /\ run_pc = "save"
    /\ fname' = sanitize_filename(keyword)
    /\ san_pc' = "done"
    /\ saved' = [name |-> sanitize_filename(keyword) \o JsonSuffix, data |-> results,
                 written |-> TRUE]
    /\ run_pc' = "print"
    /\ UNCHANGED <<keyword, feed_out, items, idx, results, outcomes, printed>>
    /\ UNCHANGED <<api_key, paperVars>>

\* line 217
PrintSaved ==
    /\ run_pc = "print"
    /\ printed' = Append(printed, "saved")
    /\ run_pc' = "exit"
    /\ UNCHANGED <<feed_out, items, idx, results, outcomes, saved>>
    /\ UNCHANGED <<sanVars, api_key, paperVars>>

RunKeywords == {<<"a", " ", "a">>, <<"/">>}

InitRun ==
    /\ keyword \in RunKeywords
    /\ fname = <<>>
    /\ san_pc = "start"
    /\ api_key \in BOOLEAN
    /\ PaperIdle
    /\ run_pc = "query"
    /\ feed_out = "none"
    /\ items = <<>>
    /\ idx = 0
    /\ results = <<>>
    /\ outcomes = <<>>
    /\ printed = <<>>
    /\ saved = NoFile

NextRun ==
    \/ FeedNon200
    \/ FeedRaises
    \/ FeedUnparseable
    \/ FeedParsed
    \/ StartPaper
    \/ FetchFails
    \/ FetchReturns
    \/ ExtractFails
    \/ ExtractReturns(RunRawTexts)
    \/ CallQwenNoKey
    \/ CallQwenFails
    \/ CallQwenReturns(RunContents)
    \/ FinishPaper
    \/ ReturnResults
    \/ SaveResults
    \/ PrintSaved

SpecRun == InitRun /\ [][NextRun]_vars

---------------------------------------------------------------------------
(* Claims about sanitize_filename *)

Forbidden == PathHostile \cup WhiteSpace

NoneOf(s, cs) == \A i \in 1..Len(s) : s[i] \notin cs

AllInvalid(s) == \A i \in 1..Len(s) : s[i] \in Forbidden \cup {SingleQuote}

\* first positions of the units of s: a maximal run of path-hostile
\* characters, a maximal run of whitespace, or any other single character
CharClass(c) == IF c \in PathHostile THEN "hostile" ELSE IF c \in WhiteSpace THEN "space" ELSE "other"

UnitStart(s, i) ==
    \/ i = 1
    \/ CharClass(s[i]) = "other"
    \/ CharClass(s[i]) # CharClass(s[i - 1])

UnitCount(s, i) == Cardinality({j \in 1..i : UnitStart(s, j)})

\* r is s with every hostile run and every whitespace run replaced by one "_"
RunsCollapsed(s, r) ==
    /\ Len(r) = UnitCount(s, Len(s))
    /\ \A i \in 1..Len(s) :
          UnitStart(s, i) =>
             r[UnitCount(s, i)] = (IF CharClass(s[i]) = "other" THEN s[i] ELSE "_")

\* every maximal whitespace run of s, wherever it is, shows up as one "_" in r
WhitespaceRuns(s) == Cardinality({i \in 1..Len(s) : s[i] \in WhiteSpace /\ (i = 1 \/ s[i - 1] \notin WhiteSpace)})

Underscores(s) == Cardinality({i \in 1..Len(s) : s[i] = "_"})

---------------------------------------------------------------------------
(* Claims about extract_affiliations_for_authors *)

\* the response schema { "authors": [ {"name": str, "affiliations": [str]} ] }
WellFormed(data) ==
    /\ data.t = "obj"
    /\ data.authors.t = "list"
    /\ \A k \in 1..Len(data.authors.items) :
          LET e == data.authors.items[k]
          IN  /\ e.t = "obj"
              /\ e.name.t = "str"
              /\ e.affiliations.t = "list"
              /\ \A j \in 1..Len(e.affiliations.items) : e.affiliations.items[j].t = "str"

Answered == content.fence # "absent"

\* the function returned and its last step was the reconciliation
Reconciled == pc = "done" /\ log # <<>> /\ log[Len(log)] = Step("parse", "ok")

Failed(lg) == \E k \in 1..Len(lg) : lg[k].out # "ok"

AllEmpty(authors, r) ==
    /\ Len(r) = Len(authors)
    /\ \A i \in 1..Len(authors) : r[i].name = authors[i] /\ r[i].affiliations = <<>>

ModelEntries == JsonLoads(content).authors.items

IsBlank(s) == \A p \in 1..Len(s) : s[p] \in WhiteSpace

\* s without its leading and trailing whitespace, for a string that is not blank
Trimmed(s) ==
    LET ink == {p \in 1..Len(s) : s[p] \notin WhiteSpace}
        first == CHOOSE p \in ink : \A q \in ink : p <= q
        last == CHOOSE p \in ink : \A q \in ink : q <= p
    IN  SubSeq(s, first, last)

\* the entries of the answer whose name, trimmed, is nm
Matches(nm) == {k \in 1..Len(ModelEntries) : ~IsBlank(ModelEntries[k].name.s) /\ Trimmed(ModelEntries[k].name.s) = nm}

ExactMatches(nm) == {k \in 1..Len(ModelEntries) : ModelEntries[k].name.s = nm}

LastOf(ks) == CHOOSE k \in ks : \A q \in ks : q <= k

\* C1: whatever the fetch, the extraction and the model call do, the function
\* returns (no exception leaves it) a list of the length of the author list
\* whose i-th name is the i-th author.
C1_OrderCount ==
    /\ pc # "raised"
    /\ pc = "done" =>
          /\ Len(result) = Len(authors_from_api)
          /\ \A i \in 1..Len(authors_from_api) : result[i].name = authors_from_api[i]

\* a list with a repeated name went through a model answer of another length
C1_Witness ==
    /\ pc = "done"
    /\ Answered
    /\ Len(authors_from_api) = 2
    /\ authors_from_api[1] = authors_from_api[2]
    /\ JsonLoads(content).authors.t = "list"
    /\ Len(ModelEntries) = 1

\* C2 as stated: on a well-formed answer, an author for whom no entry has
\* exactly that name receives an empty list (names that differ contribute
\* nothing).
C2_AsStated ==
    (Reconciled /\ WellFormed(JsonLoads(content))) =>
       \A i \in 1..Len(authors_from_api) :
          ExactMatches(authors_from_api[i]) = {} => result[i].affiliations = <<>>

\* C2 amended: on a well-formed answer the match is on the model's name with
\* its surrounding whitespace removed: an author no entry matches receives an
\* empty list, and otherwise every affiliation output comes from the last
\* entry whose trimmed name is the author's, and is not lost; an entry whose
\* trimmed name is no author's contributes nothing.
C2_TrimmedMatch ==
    (Reconciled /\ WellFormed(JsonLoads(content))) =>
       /\ \A i \in 1..Len(authors_from_api) :
             LET M == Matches(authors_from_api[i])
                 src == ModelEntries[LastOf(M)].affiliations.items
                 out == result[i].affiliations
             IN  IF M = {} THEN out = <<>>
                 ELSE /\ \A j \in 1..Len(out) :
                            \E q \in 1..Len(src) : ~IsBlank(src[q].s) /\ out[j] = Trimmed(src[q].s)
                      /\ (\E q \in 1..Len(src) : ~IsBlank(src[q].s)) => out # <<>>
       /\ (/\ authors_from_api = <<<<"a">>, <<"b">>>>
           /\ ModelEntries = <<Entry(Str(<<"a">>), StrList(<<<<"m">>>>)),
                               Entry(Str(<<"c">>), StrList(<<<<"m">>>>))>>)
             => result = <<[name |-> <<"a">>, affiliations |-> <<<<"m">>>>],
                           [name |-> <<"b">>, affiliations |-> <<>>]>>

\* an entry named " a" gave its affiliations to the author "a", beside an
\* entry of a name that is not in the list
C2_Witness ==
    /\ Reconciled
    /\ WellFormed(JsonLoads(content))
    /\ authors_from_api = <<<<"b">>, <<"a">>>>
    /\ Len(ModelEntries) = 2
    /\ ModelEntries[1].name.s = <<" ", "a">>
    /\ ModelEntries[2].name.s = <<"c">>
    /\ result[2].affiliations # <<>>
    /\ result[1].affiliations = <<>>

\* C3 as stated: an answer that is not JSON or does not have the schema's
\* keys and types gives the degraded result.
C3_AsStated ==
    (pc = "done" /\ Answered /\ ~WellFormed(JsonLoads(content))) =>
       result = DegradedResult(authors_from_api)

\* C4 as stated: an empty first-page text gives the degraded result.
C4_AsStated ==
    (pc = "done" /\ text = <<>>) => AllEmpty(authors_from_api, result)

\* r is the elements of src that are not blank, trimmed, in the order of src
IsCleaned(src, r) ==
    LET K == {j \in 1..Len(src) : ~IsBlank(src[j].s)}
    IN  /\ Len(r) = Cardinality(K)
        /\ \A j \in K : r[Cardinality({q \in K : q <= j})] = Trimmed(src[j].s)

\* C5: on a well-formed answer the affiliations of the i-th author are the
\* strings of the entry matched to that name, trimmed, the blank ones removed,
\* in the model's order and with repetitions kept; no string output is empty
\* or has whitespace at either end; equal names receive equal lists.
C5_CleanedAffiliations ==
    (Reconciled /\ WellFormed(JsonLoads(content))) =>
       /\ \A i \in 1..Len(authors_from_api) :
             LET M == Matches(authors_from_api[i])
             IN  IsCleaned(IF M = {} THEN <<>> ELSE ModelEntries[LastOf(M)].affiliations.items,
                           result[i].affiliations)
       /\ \A i \in 1..Len(result) : \A j \in 1..Len(result[i].affiliations) :
             LET a == result[i].affiliations[j]
             IN  a # <<>> /\ a[1] \notin WhiteSpace /\ a[Len(a)] \notin WhiteSpace
       /\ \A i, k \in 1..Len(result) :
             result[i].name = result[k].name => result[i].affiliations = result[k].affiliations

\* a repeated author received the two strings of its entry, the padded one trimmed
C5_Witness ==
    /\ Reconciled
    /\ WellFormed(JsonLoads(content))
    /\ authors_from_api = <<<<"a">>, <<"a">>>>
    /\ \E k \in 1..Len(ModelEntries) :
          ModelEntries[k] = Entry(Str(<<"a">>), StrList(<<<<" ", "n", " ">>, <<"m">>>>))
    /\ result[1].affiliations = <<<<"n">>, <<"m">>>>
    /\ result[2].affiliations = <<<<"n">>, <<"m">>>>

Count(lg, op) == Cardinality({k \in 1..Len(lg) : lg[k].op = op})

\* C10: at most one PDF request and one model request per paper; the model
\* request only after the PDF request and the extraction succeeded; a failed
\* step is the last step, and the degraded result is returned on it.
C10_OrderedNoRetry ==
    /\ Count(log, "get") <= 1
    /\ Count(log, "post") <= 1
    /\ \A k \in 1..Len(log) :
          log[k].op = "post" =>
             /\ \E i \in 1..(k - 1) : log[i] = Step("get", "ok")
             /\ \E i \in 1..(k - 1) : log[i] = Step("pdf", "ok")
    /\ \A k \in 1..Len(log) : log[k].out # "ok" => k = Len(log)
    /\ Failed(log) => pc = "done" /\ AllEmpty(authors_from_api, result)

\* a model request failed after the PDF was fetched and read
C10_Witness ==
    /\ pc = "done"
    /\ log = <<Step("get", "ok"), Step("pdf", "ok"), Step("post", "Timeout")>>
    /\ authors_from_api # <<>>

---------------------------------------------------------------------------
(* Claims about a run *)

Names(r) == [i \in 1..Len(r) |-> r[i].name]

\* C6: no failure inside a paper ends the run; the records are those of the
\* feed, in its order, one per item once the loop is over; the record of a
\* paper is determined by its item and its own outcomes, and a failure in a
\* paper empties the affiliations of that paper only.
C6_Isolation ==
    /\ feed_out = "ok" => run_pc # "crashed"
    /\ Len(outcomes) = Len(results)
    /\ Len(results) <= Len(items)
    /\ run_pc \in {"save", "print", "exit"} /\ feed_out = "ok" => Len(results) = Len(items)
    /\ \A j \in 1..Len(results) :
          /\ results[j].title = items[j].title
          /\ Names(results[j].authors) = items[j].authors
          /\ Failed(outcomes[j].log) => AllEmpty(items[j].authors, results[j].authors)
    /\ \A j, k \in 1..Len(results) :
          (items[j] = items[k] /\ outcomes[j] = outcomes[k]) => results[j] = results[k]

\* a run over two papers ended; the first paper failed, the second has an affiliation
C6_Witness ==
    /\ run_pc = "exit"
    /\ Len(items) = 2
    /\ Len(results) = 2
    /\ Failed(outcomes[1].log)
    /\ \E i \in 1..Len(results[2].authors) : results[2].authors[i].affiliations # <<>>

\* C7 as stated: the RuntimeError call_qwen raises for a missing credential
\* leaves extract_affiliations_for_authors instead of becoming a degraded
\* result: no record is made of a paper whose model call found no credential,
\* and no file is written after it.
C7_AsStated ==
    /\ (\E k \in 1..Len(log) : log[k].op = "key") => pc = "raised"
    /\ \A j \in 1..Len(outcomes) : \A k \in 1..Len(outcomes[j].log) :
          outcomes[j].log[k].op # "key"
    /\ (~api_key /\ feed_out = "ok" /\ items # <<>>) => ~saved.written

\* C8 as stated: a failed feed request never ends the process abnormally; a
\* message is printed and the results are empty.
C8_AsStated ==
    feed_out \in {"non200", "Timeout", "ConnectionError", "ParseError"} =>
       /\ run_pc # "crashed"
       /\ printed # <<>>
       /\ results = <<>>

=============================================================================
